---- MODULE Spec2Model ----
(***************************************************************************)
(* md_to_json.py (src/exampleCode.py): conversion of a privacy-policy      *)
(* draft in Markdown into sections of HTML fragments plus a date.          *)
(*                                                                         *)
(* A Python str is a sequence of one-character strings.  The fixed HTML    *)
(* tags the program emits are single elements of such a sequence (named    *)
(* by their literal text): no tag contains a character that any later      *)
(* pattern of the program inspects (backquote * _ [ ] ( ) newline, a      *)
(* leading - or >, two adjacent spaces), so a tag behaves as one opaque    *)
(* character.                                                              *)
(***************************************************************************)
EXTENDS Integers, Sequences, FiniteSets, TLC

\* ------------------------------------------------------------------ bounds
MaxLines == 3
MaxInlineLen == 4
MaxDocLines == 3
MaxDrafts == 3

\* ----------------------------------------------------------- str helpers
NL == "\n"
WS == {" ", "\t", "\n"}

IsPrefixAt(t, i, w) ==
  /\ i >= 1
  /\ i + Len(w) - 1 <= Len(t)
  /\ \A k \in 1..Len(w) : t[i + k - 1] = w[k]

StartsWith(t, w) == IsPrefixAt(t, 1, w)

RECURSIVE LStrip(_)
LStrip(t) == IF t # <<>> /\ Head(t) \in WS THEN LStrip(Tail(t)) ELSE t

RECURSIVE RStrip(_)
RStrip(t) ==
  IF t # <<>> /\ t[Len(t)] \in WS THEN RStrip(SubSeq(t, 1, Len(t) - 1)) ELSE t

Strip(t) == RStrip(LStrip(t))

\* number of consecutive whitespace characters of t from index i on
RECURSIVE WsRun(_, _)
WsRun(t, i) == IF i <= Len(t) /\ t[i] \in WS THEN 1 + WsRun(t, i + 1) ELSE 0

\* index of the last character of the line that holds index i
RECURSIVE LineEnd(_, _)
LineEnd(t, i) == IF i < Len(t) /\ t[i + 1] # NL THEN LineEnd(t, i + 1) ELSE i

\* ^ under re.MULTILINE
AtLineStart(t, i) == i = 1 \/ (i >= 2 /\ i <= Len(t) + 1 /\ t[i - 1] = NL)

\* first index >= i that holds c, or 0
RECURSIVE IndexFrom(_, _, _)
IndexFrom(t, c, i) ==
  IF i > Len(t) THEN 0 ELSE IF t[i] = c THEN i ELSE IndexFrom(t, c, i + 1)

RECURSIVE Split(_, _)
Split(t, c) ==
  LET j == IndexFrom(t, c, 1)
  IN  IF j = 0 THEN <<t>>
      ELSE <<SubSeq(t, 1, j - 1)>> \o Split(SubSeq(t, j + 1, Len(t)), c)

RECURSIVE Join(_, _)
Join(ls, c) ==
  IF ls = <<>> THEN <<>>
  ELSE IF Len(ls) = 1 THEN ls[1]
  ELSE ls[1] \o <<c>> \o Join(Tail(ls), c)

RECURSIVE SeqsUpTo(_, _)
SeqsUpTo(S, n) ==
  IF n = 0 THEN {<<>>}
  ELSE LET P == SeqsUpTo(S, n - 1)
       IN  P \cup {Append(p, x) : p \in {q \in P : Len(q) = n - 1}, x \in S}

\* ------------------------------------------------------------------ tags
CODE_OPEN == "<code class='bg-gray-100 px-1 py-0.5 rounded text-sm'>"
CODE_CLOSE == "</code>"
STRONG_OPEN == "<strong>"
STRONG_CLOSE == "</strong>"
EM_OPEN == "<em>"
EM_CLOSE == "</em>"
A_HREF == "<a href=\""
A_CLASS == "\" class=\"text-primary hover:text-blue-600 underline\">"
A_CLOSE == "</a>"
BR == "<br>"
H3_OPEN == "<h3 class=\"text-lg font-medium text-gray-900 mt-4 mb-2\">"
H3_CLOSE == "</h3>"
UL_OUTSIDE == "<ul class=\"list-disc list-outside mb-4 space-y-1 pl-5\">"
UL_INSIDE == "<ul class=\"list-disc list-inside mb-4 space-y-1\">"
UL_CLOSE == "</ul>"
LI_OPEN == "<li>"
LI_CLOSE == "</li>"
P_OPEN == "<p class=\"mb-4\">"
P_CLOSE == "</p>"
QUOTE_DIV == "<div class=\"bg-gradient-to-r from-blue-50 to-indigo-50 border-l-4 border-blue-600 rounded-r-lg px-4 py-2 mb-4 shadow-sm\">"
FLEX_DIV == "<div class=\"flex items-start\">"
ICON_DIV == "<div class=\"flex-shrink-0 mr-3\">"
SVG_OPEN == "<svg class=\"w-5 h-5 text-blue-500 mt-0.5\" fill=\"currentColor\" viewBox=\"0 0 20 20\">"
SVG_PATH == "<path fill-rule=\"evenodd\" d=\"M18 10a8 8 0 11-16 0 8 8 0 0116 0zm-7-4a1 1 0 11-2 0 1 1 0 012 0zM9 9a1 1 0 000 2v3a1 1 0 001 1h1a1 1 0 100-2v-3a1 1 0 00-1-1H9z\" clip-rule=\"evenodd\"></path>"
SVG_CLOSE == "</svg>"
DIV_CLOSE == "</div>"
FLEX1_DIV == "<div class=\"flex-1\">"
QP_TIGHT == "<p class=\"text-gray-800 font-medium leading-tight mb-0\">"
QP_RELAXED == "<p class=\"text-gray-800 font-medium leading-relaxed\">"

\* ------------------------------------------------ convert_inline_markdown
\* the backquote character U+0060 (a TLA+ string cannot hold it)
BQ == "BACKQUOTE"

\* _md_code = `([^`]+)` : index of the closing backtick of a match at i, or 0
CodeEnd(t, i) ==
  IF i <= Len(t) /\ t[i] = BQ
  THEN LET j == IndexFrom(t, BQ, i + 1) IN IF j > i + 1 THEN j ELSE 0
  ELSE 0

RECURSIVE CodeSub(_, _)
CodeSub(t, i) ==
  IF i > Len(t) THEN <<>>
  ELSE LET j == CodeEnd(t, i)
       IN  IF j > 0
           THEN <<CODE_OPEN>> \o SubSeq(t, i + 1, j - 1) \o <<CODE_CLOSE>>
                  \o CodeSub(t, j + 1)
           ELSE <<t[i]>> \o CodeSub(t, i + 1)

\* first j >= i with t[j] = t[j+1] = c, or 0
RECURSIVE PairFrom(_, _, _)
PairFrom(t, c, i) ==
  IF i + 1 > Len(t) THEN 0
  ELSE IF t[i] = c /\ t[i + 1] = c THEN i ELSE PairFrom(t, c, i + 1)

\* _md_strong = \*\*([^*][\s\S]*?)\*\*|__([^_][\s\S]*?)__ : index of the
\* closing pair of a match at i, or 0
StrongEnd(t, i) ==
  IF /\ i + 2 <= Len(t)
     /\ t[i] \in {"*", "_"}
     /\ t[i + 1] = t[i]
     /\ t[i + 2] # t[i]
  THEN PairFrom(t, t[i], i + 3)
  ELSE 0

RECURSIVE StrongSub(_, _)
StrongSub(t, i) ==
  IF i > Len(t) THEN <<>>
  ELSE LET j == StrongEnd(t, i)
       IN  IF j > 0
           THEN <<STRONG_OPEN>> \o SubSeq(t, i + 2, j - 1) \o <<STRONG_CLOSE>>
                  \o StrongSub(t, j + 2)
           ELSE <<t[i]>> \o StrongSub(t, i + 1)

\* first j >= i with t[j] = "*" not followed by "*", or 0
RECURSIVE StarCloseFrom(_, _)
StarCloseFrom(t, i) ==
  IF i > Len(t) THEN 0
  ELSE IF t[i] = "*" /\ (i = Len(t) \/ t[i + 1] # "*") THEN i
  ELSE StarCloseFrom(t, i + 1)

\* _md_em = (?<!\*)\*([^*][\s\S]*?)\*(?!\*)|_([^_][\s\S]*?)_ : index of the
\* closing delimiter of a match at i, or 0
EmEnd(t, i) ==
  IF i + 1 <= Len(t) /\ t[i] = "*" /\ (i = 1 \/ t[i - 1] # "*") /\ t[i + 1] # "*"
  THEN StarCloseFrom(t, i + 2)
  ELSE IF i + 1 <= Len(t) /\ t[i] = "_" /\ t[i + 1] # "_"
  THEN IndexFrom(t, "_", i + 2)
  ELSE 0

RECURSIVE EmSub(_, _)
EmSub(t, i) ==
  IF i > Len(t) THEN <<>>
  ELSE LET j == EmEnd(t, i)
       IN  IF j > 0
           THEN <<EM_OPEN>> \o SubSeq(t, i + 1, j - 1) \o <<EM_CLOSE>>
                  \o EmSub(t, j + 1)
           ELSE <<t[i]>> \o EmSub(t, i + 1)

\* _md_link = \[([^\]]+)\]\(([^)]+)\) : <<index of "]", index of ")">> of a
\* match at i, or <<0, 0>>
LinkEnd(t, i) ==
  IF i <= Len(t) /\ t[i] = "["
  THEN LET j == IndexFrom(t, "]", i + 1)
       IN  IF j > i + 1 /\ j + 1 <= Len(t) /\ t[j + 1] = "("
           THEN LET k == IndexFrom(t, ")", j + 2)
                IN  IF k > j + 2 THEN <<j, k>> ELSE <<0, 0>>
           ELSE <<0, 0>>
  ELSE <<0, 0>>

RECURSIVE LinkSub(_, _)
LinkSub(t, i) ==
  IF i > Len(t) THEN <<>>
  ELSE LET m == LinkEnd(t, i)
       IN  IF m[1] > 0
           THEN <<A_HREF>> \o SubSeq(t, m[1] + 2, m[2] - 1) \o <<A_CLASS>>
                  \o SubSeq(t, i + 1, m[1] - 1) \o <<A_CLOSE>>
                  \o LinkSub(t, m[2] + 1)
           ELSE <<t[i]>> \o LinkSub(t, i + 1)

\* _md_two_space_break = "  \n" -> "<br>\n"
RECURSIVE BreakSub(_, _)
BreakSub(t, i) ==
  IF i > Len(t) THEN <<>>
  ELSE IF IsPrefixAt(t, i, <<" ", " ", NL>>)
       THEN <<BR, NL>> \o BreakSub(t, i + 3)
       ELSE <<t[i]>> \o BreakSub(t, i + 1)

convert_inline_markdown(t) ==
  IF t = <<>> THEN t
  ELSE BreakSub(LinkSub(EmSub(StrongSub(CodeSub(t, 1), 1), 1), 1), 1)

\* ------------------------------------------------ convert_markdown_to_html
\* re.sub(r'^###\s+(.+?)$', <h3 ...>\1</h3>, text, flags=re.MULTILINE):
\* index of the first captured character of a match at i, or 0.  \s+ is
\* greedy and gives back until a character other than a newline follows.
H3CapStart(t, i) ==
  IF AtLineStart(t, i) /\ IsPrefixAt(t, i, <<"#", "#", "#">>)
  THEN LET ks == {k \in 1..WsRun(t, i + 3) :
                    i + 3 + k <= Len(t) /\ t[i + 3 + k] # NL}
       IN  IF ks = {} THEN 0
           ELSE i + 3 + (CHOOSE k \in ks : \A k2 \in ks : k2 <= k)
  ELSE 0

RECURSIVE H3Sub(_, _)
H3Sub(t, i) ==
  IF i > Len(t) THEN <<>>
  ELSE LET s == H3CapStart(t, i)
       IN  IF s > 0
           THEN <<H3_OPEN>> \o SubSeq(t, s, LineEnd(t, s)) \o <<H3_CLOSE>>
                  \o H3Sub(t, LineEnd(t, s) + 1)
           ELSE <<t[i]>> \o H3Sub(t, i + 1)

\* the local variables of the line loop
NoBlock ==
  [in_list |-> FALSE, in_blockquote |-> FALSE, list_items |-> <<>>,
   blockquote_items |-> <<>>, result_lines |-> <<>>]

Wrap(items, open, close) ==
  [k \in 1..Len(items) |-> <<open>> \o convert_inline_markdown(items[k]) \o <<close>>]

\* result_lines.append('<ul ...>'); one <li> per item; '</ul>'
ListFragment(items, ul) == <<<<ul>>>> \o Wrap(items, LI_OPEN, LI_CLOSE) \o <<<<UL_CLOSE>>>>

\* the blockquote container: eight opening lines, one <p> per item, three </div>
QuoteFragment(items, p) ==
  << <<QUOTE_DIV>>, <<FLEX_DIV>>, <<ICON_DIV>>, <<SVG_OPEN>>, <<SVG_PATH>>,
     <<SVG_CLOSE>>, <<DIV_CLOSE>>, <<FLEX1_DIV>> >>
    \o Wrap(items, p, P_CLOSE)
    \o << <<DIV_CLOSE>>, <<DIV_CLOSE>>, <<DIV_CLOSE>> >>

\* a flush that emits the list but keeps the collected items
FlushListKeepsItems(st, ul) ==
  IF st.in_list /\ st.list_items # <<>>
  THEN [st EXCEPT !.result_lines = @ \o ListFragment(st.list_items, ul),
                  !.in_list = FALSE]
  ELSE st

\* "if in_list and list_items:" emit the list, then list_items = [] and
\* in_list = False
FlushList(st, ul) ==
  IF st.in_list /\ st.list_items # <<>>
  THEN [st EXCEPT !.result_lines = @ \o ListFragment(st.list_items, ul),
                  !.list_items = <<>>, !.in_list = FALSE]
  ELSE st

\* "if in_blockquote and blockquote_items:" emit the blockquote, then
\* blockquote_items = [] and in_blockquote = False
FlushQuote(st, p) ==
  IF st.in_blockquote /\ st.blockquote_items # <<>>
  THEN [st EXCEPT !.result_lines = @ \o QuoteFragment(st.blockquote_items, p),
                  !.blockquote_items = <<>>, !.in_blockquote = FALSE]
  ELSE st

\* which branch of the if/elif chain a line takes (line is already stripped)
LineKind(st, line) ==
  IF StartsWith(line, <<"-", " ">>) THEN "dash_space"
  ELSE IF StartsWith(line, <<"-">>) THEN "dash"
  ELSE IF StartsWith(line, <<">", " ">>) THEN "gt_space"
  ELSE IF StartsWith(line, <<">">>) THEN "gt"
  ELSE IF st.in_list /\ line # <<>> THEN "list_continuation"
  ELSE IF st.in_blockquote /\ line # <<>> THEN "quote_continuation"
  ELSE IF (st.in_list \/ st.in_blockquote) /\ line = <<>> THEN "blank_close"
  ELSE "regular"

\* "if not in_list: in_list = True; list_items = []" then append
AddListItem(st, item) ==
  LET items == IF st.in_list THEN st.list_items ELSE <<>>
  IN  [st EXCEPT !.in_list = TRUE, !.list_items = Append(items, item)]

AddQuoteItem(st, item) ==
  LET items == IF st.in_blockquote THEN st.blockquote_items ELSE <<>>
  IN  [st EXCEPT !.in_blockquote = TRUE, !.blockquote_items = Append(items, item)]

AppendToLast(items, line) ==
  IF items = <<>> THEN items
  ELSE [items EXCEPT ![Len(items)] = @ \o <<" ">> \o line]

\* one iteration of "for line in lines:"
ProcessLine(st, rawline) ==
  LET line == Strip(rawline)
      kind == LineKind(st, line)
  IN  CASE kind = "dash_space" -> AddListItem(st, SubSeq(line, 3, Len(line)))
        [] kind = "dash" -> AddListItem(st, Strip(SubSeq(line, 2, Len(line))))
        [] kind = "gt_space" -> AddQuoteItem(st, SubSeq(line, 3, Len(line)))
        [] kind = "gt" -> AddQuoteItem(st, Strip(SubSeq(line, 2, Len(line))))
        [] kind = "list_continuation" ->
             [st EXCEPT !.list_items = AppendToLast(@, line)]
        [] kind = "quote_continuation" ->
             [st EXCEPT !.blockquote_items = AppendToLast(@, line)]
        [] kind = "blank_close" ->
             FlushQuote(FlushList(st, UL_OUTSIDE), QP_TIGHT)
        [] OTHER ->
             LET f == FlushQuote(FlushList(st, UL_INSIDE), QP_TIGHT)
             IN  IF line # <<>>
                 THEN [f EXCEPT !.result_lines =
                         Append(@, <<P_OPEN>> \o convert_inline_markdown(line) \o <<P_CLOSE>>)]
                 ELSE f

\* "Handle any remaining list or blockquote at the end"; its flags are not
\* reset, the function returns
EndOfLines(st) ==
  LET a == IF st.in_list /\ st.list_items # <<>>
           THEN st.result_lines \o ListFragment(st.list_items, UL_OUTSIDE)
           ELSE st.result_lines
  IN  IF st.in_blockquote /\ st.blockquote_items # <<>>
      THEN a \o QuoteFragment(st.blockquote_items, QP_RELAXED)
      ELSE a

RECURSIVE RunLines(_, _)
RunLines(st, ls) ==
  IF ls = <<>> THEN st ELSE RunLines(ProcessLine(st, Head(ls)), Tail(ls))

convert_markdown_to_html(t) ==
  IF t = <<>> THEN t
  ELSE Join(EndOfLines(RunLines(NoBlock, Split(H3Sub(t, 1), NL))), NL)

\* ------------------------------------------------------------------ state
VARIABLES
  \* convert_markdown_to_html: the caller's body, the local text, and the
  \* locals of the line loop
  body, text, lines, idx, in_list, in_blockquote, list_items,
  blockquote_items, result_lines, html, bpc,
  \* convert_inline_markdown: its argument, its local text, the next pass
  inline_arg, inline_text, ipc,
  \* parse_sections: its argument, the heading matches, the loop index, the
  \* sections built so far
  md_text, matches, sec_i, sections, spc,
  \* parse_last_updated: its argument, the normalised text, the next pattern
  \* and m.group(1); _try_parse_date: its stripped argument, the next format,
  \* and what the call returned or raised
  date_text, normalised, pat_i, captured, raw, fmt_i, last_dt, dpc,
  \* main: args.drafts, args.stdout, the loop index, what the call of
  \* md_to_json_structure returned or raised, what was printed, the files
  \* written, and the position in the loop body
  drafts, args_stdout, draft_i, converted, printed, files, mpc

blockVars ==
  <<body, text, lines, idx, in_list, in_blockquote, list_items,
    blockquote_items, result_lines, html, bpc>>
inlineVars == <<inline_arg, inline_text, ipc>>
sectionVars == <<md_text, matches, sec_i, sections, spc>>
dateVars == <<date_text, normalised, pat_i, captured, raw, fmt_i, last_dt, dpc>>
mainVars == <<drafts, args_stdout, draft_i, converted, printed, files, mpc>>
vars == <<blockVars, inlineVars, sectionVars, dateVars, mainVars>>

BlocksIdle ==
  /\ body = <<>> /\ text = <<>> /\ lines = <<>> /\ idx = 0
  /\ in_list = FALSE /\ in_blockquote = FALSE
  /\ list_items = <<>> /\ blockquote_items = <<>>
  /\ result_lines = <<>> /\ html = <<>> /\ bpc = "idle"
InlineIdle == inline_arg = <<>> /\ inline_text = <<>> /\ ipc = "idle"
SectionsIdle ==
  /\ md_text = <<>> /\ matches = <<>> /\ sec_i = 0 /\ sections = <<>>
  /\ spc = "idle"
NoDate == [ok |-> FALSE, error |-> "not called"]
DateIdle ==
  /\ date_text = <<>> /\ normalised = <<>> /\ pat_i = 0 /\ captured = <<>>
  /\ raw = <<>> /\ fmt_i = 0 /\ last_dt = NoDate /\ dpc = "idle"
MainIdle ==
  /\ drafts = <<>> /\ args_stdout = FALSE /\ draft_i = 0
  /\ converted = NoDate /\ printed = <<>> /\ files = {} /\ mpc = "idle"

\* ------------------------------------- convert_markdown_to_html, by steps
BodyLines ==
  { <<"-", " ", "a">>, <<"-", "b">>, <<">", " ", "q">>, <<">", "r">>,
    <<>>, <<"t">>, <<"#", "#", "#", " ", "h">> }

\* parse_sections passes md_text[start:end].strip()
Bodies == {Strip(Join(ls, NL)) : ls \in SeqsUpTo(BodyLines, MaxLines)}

Cur ==
  [in_list |-> in_list, in_blockquote |-> in_blockquote,
   list_items |-> list_items, blockquote_items |-> blockquote_items,
   result_lines |-> result_lines]

InitBlocks ==
  /\ body \in Bodies
  /\ text = body
  /\ lines = <<>> /\ idx = 0
  /\ in_list = FALSE /\ in_blockquote = FALSE
  /\ list_items = <<>> /\ blockquote_items = <<>>
  /\ result_lines = <<>> /\ html = <<>>
  /\ bpc = "start"
  /\ InlineIdle /\ SectionsIdle /\ DateIdle /\ MainIdle

\* "if not text: return text"
EmptyText ==
  /\ bpc = "start" /\ text = <<>>
  /\ html' = text
  /\ bpc' = "done"
  /\ UNCHANGED <<body, text, lines, idx, in_list, in_blockquote, list_items,
                 blockquote_items, result_lines, inlineVars, sectionVars, dateVars, mainVars>>

\* the header pre-pass, then lines = text.split('\n')
HeaderPrePass ==
  /\ bpc = "start" /\ text # <<>>
  /\ text' = H3Sub(text, 1)
  /\ lines' = Split(text', NL)
  /\ idx' = 1
  /\ bpc' = "loop"
  /\ UNCHANGED <<body, in_list, in_blockquote, list_items, blockquote_items,
                 result_lines, html, inlineVars, sectionVars, dateVars, mainVars>>

LineStep(kind) ==
  /\ bpc = "loop" /\ idx <= Len(lines)
  /\ LineKind(Cur, Strip(lines[idx])) = kind
  /\ LET s == ProcessLine(Cur, lines[idx])
     IN  /\ in_list' = s.in_list
         /\ in_blockquote' = s.in_blockquote
         /\ list_items' = s.list_items
         /\ blockquote_items' = s.blockquote_items
         /\ result_lines' = s.result_lines
  /\ idx' = idx + 1
  /\ UNCHANGED <<body, text, lines, html, bpc, inlineVars, sectionVars, dateVars, mainVars>>

ListItemLine == LineStep("dash_space")
ListItemBareLine == LineStep("dash")
QuoteLine == LineStep("gt_space")
QuoteBareLine == LineStep("gt")
ListContinuationLine == LineStep("list_continuation")
QuoteContinuationLine == LineStep("quote_continuation")
BlankLineClose == LineStep("blank_close")
RegularLine == LineStep("regular")

\* after the loop: flush what is still open, return '\n'.join(result_lines)
EndOfInput ==
  /\ bpc = "loop" /\ idx > Len(lines)
  /\ result_lines' = EndOfLines(Cur)
  /\ html' = Join(result_lines', NL)
  /\ bpc' = "done"
  /\ UNCHANGED <<body, text, lines, idx, in_list, in_blockquote, list_items,
                 blockquote_items, inlineVars, sectionVars, dateVars, mainVars>>

NextBlocks ==
  \/ EmptyText
  \/ HeaderPrePass
  \/ ListItemLine
  \/ ListItemBareLine
  \/ QuoteLine
  \/ QuoteBareLine
  \/ ListContinuationLine
  \/ QuoteContinuationLine
  \/ BlankLineClose
  \/ RegularLine
  \/ EndOfInput

SpecBlocks == InitBlocks /\ [][NextBlocks]_vars

\* ---------------------------------------------- properties of the blocks
Range(f) == {f[k] : k \in DOMAIN f}

IsDashLine(l) == StartsWith(Strip(l), <<"-">>)
IsQuoteLine(l) == ~IsDashLine(l) /\ StartsWith(Strip(l), <<">">>)
IsH3Line(l) == StartsWith(l, <<"#", "#", "#", " ">>) /\ Len(Strip(l)) > 3

\* the text a prefixed line contributes: what follows "- " (or "-", "> ", ">")
MarkerText(l) ==
  LET w == Strip(l)
  IN  IF Len(w) >= 2 /\ w[2] = " " THEN SubSeq(w, 3, Len(w))
      ELSE Strip(SubSeq(w, 2, Len(w)))

LinesFrom(rl, open) == SelectSeq(rl, LAMBDA l : l # <<>> /\ l[1] = open)
Inner(l) == SubSeq(l, 2, Len(l) - 1)
InnerOf(ls) == [k \in 1..Len(ls) |-> Inner(ls[k])]

EmittedItems == InnerOf(LinesFrom(result_lines, LI_OPEN))
EmittedQuotes ==
  InnerOf(SelectSeq(result_lines,
                    LAMBDA l : l # <<>> /\ l[1] \in {QP_TIGHT, QP_RELAXED}))

SeenLines == SubSeq(lines, 1, idx - 1)

AgreeWith(got, want) ==
  /\ Len(got) = Len(want)
  /\ \A k \in 1..Len(want) : IsPrefixAt(got[k], 1, want[k])

FirstIndex(ls, Test(_)) ==
  IF \E k \in 1..Len(ls) : Test(ls[k])
  THEN CHOOSE k \in 1..Len(ls) : Test(ls[k]) /\ \A j \in 1..(k - 1) : ~Test(ls[j])
  ELSE 0

\* C8 (as claimed): a list and a blockquote are never open together, and the
\* list and blockquote fragments come out in the order in which their first
\* lines stand in the input.
C8_OneContainerOpen ==
  /\ ~(in_list /\ in_blockquote)
  /\ bpc = "done" =>
       LET fd == FirstIndex(lines, IsDashLine)
           fq == FirstIndex(lines, IsQuoteLine)
           iu == FirstIndex(result_lines, LAMBDA l : l # <<>> /\ l[1] = UL_OUTSIDE)
           iq == FirstIndex(result_lines, LAMBDA l : l # <<>> /\ l[1] = QUOTE_DIV)
       IN  (fd > 0 /\ fq > 0) => ((fd < fq) <=> (iu < iq))

\* C9 (as claimed): every "### heading" line of the body yields a fragment of
\* its own, <h3>heading</h3>: not inside a list item, a blockquote line or a
\* paragraph.
C9_HeadingIsOwnFragment ==
  bpc = "done" =>
    /\ \A k \in 1..Len(result_lines) :
         H3_OPEN \in Range(result_lines[k]) =>
           /\ result_lines[k][1] = H3_OPEN
           /\ result_lines[k][Len(result_lines[k])] = H3_CLOSE
    /\ Len(LinesFrom(result_lines, H3_OPEN))
         = Len(SelectSeq(Split(body, NL), IsH3Line))

\* C10: at every point of the line loop, the list items (blockquote lines)
\* already emitted followed by those still pending are exactly the prefixed
\* lines read so far, one each and in input order; once the input has ended
\* none is pending; and right after a blank line no container is open.
C10_ItemsEmittedOnce ==
  bpc \in {"loop", "done"} =>
    /\ AgreeWith(EmittedItems \o (IF bpc = "done" THEN <<>> ELSE list_items),
                 [k \in 1..Len(SelectSeq(SeenLines, IsDashLine)) |->
                    MarkerText(SelectSeq(SeenLines, IsDashLine)[k])])
    /\ AgreeWith(EmittedQuotes \o (IF bpc = "done" THEN <<>> ELSE blockquote_items),
                 [k \in 1..Len(SelectSeq(SeenLines, IsQuoteLine)) |->
                    MarkerText(SelectSeq(SeenLines, IsQuoteLine)[k])])
    /\ (bpc = "loop" /\ idx > 1 /\ Strip(lines[idx - 1]) = <<>>) =>
         /\ ~in_list /\ ~in_blockquote
         /\ list_items = <<>> /\ blockquote_items = <<>>

\* a list closed by a blank line and a second one closed by the end of input
C10_Witness ==
  /\ bpc = "done"
  /\ Len(LinesFrom(result_lines, UL_OUTSIDE)) = 2
  /\ Len(EmittedItems) = 2

\* -------------------------------------- convert_inline_markdown, by steps
InlineAlphabet == {BQ, "*", "_", "a"}

InlineInputs ==
  SeqsUpTo(InlineAlphabet, MaxInlineLen)
    \cup { <<BQ, "*", "*", "a", "*", "*", BQ>>,
           <<"[", "a", "]", "(", "u", ")">>,
           <<BQ, "[", "a", "]", "(", "u", ")", BQ>>,
           <<"a", " ", " ", NL, "b">>,
           <<"*", "*", "b", " ", "*", "a", "*", " ", "n", "*", "*">> }

InitInline ==
  /\ inline_arg \in InlineInputs
  /\ inline_text = inline_arg
  /\ ipc = "start"
  /\ BlocksIdle /\ SectionsIdle /\ DateIdle /\ MainIdle

\* "if not text: return text"
InlineEmpty ==
  /\ ipc = "start" /\ inline_text = <<>>
  /\ ipc' = "done"
  /\ UNCHANGED <<inline_arg, inline_text, blockVars, sectionVars, dateVars, mainVars>>

InlinePass(from, to, out) ==
  /\ ipc = from
  /\ inline_text' = out
  /\ ipc' = to
  /\ UNCHANGED <<inline_arg, blockVars, sectionVars, dateVars, mainVars>>

CodePass ==
  /\ inline_text # <<>>
  /\ InlinePass("start", "strong", CodeSub(inline_text, 1))
StrongPass == InlinePass("strong", "em", StrongSub(inline_text, 1))
EmPass == InlinePass("em", "link", EmSub(inline_text, 1))
LinkPass == InlinePass("link", "break", LinkSub(inline_text, 1))
BreakPass == InlinePass("break", "done", BreakSub(inline_text, 1))

NextInline ==
  \/ InlineEmpty
  \/ CodePass
  \/ StrongPass
  \/ EmPass
  \/ LinkPass
  \/ BreakPass

SpecInline == InitInline /\ [][NextInline]_vars

\* what stands between each <code ...> and the </code> that follows it
RECURSIVE CodeInners(_)
CodeInners(t) ==
  LET o == IndexFrom(t, CODE_OPEN, 1)
  IN  IF o = 0 THEN <<>>
      ELSE LET c == IndexFrom(t, CODE_CLOSE, o + 1)
           IN  IF c = 0 THEN <<SubSeq(t, o + 1, Len(t))>>
               ELSE <<SubSeq(t, o + 1, c - 1)>>
                      \o CodeInners(SubSeq(t, c + 1, Len(t)))

\* C5 (as claimed): no pass after the code pass touches the inside of a code
\* element: from the code pass on, every code element holds the literal inner
\* text of its code span.
C5_CodeSpanLiteral ==
  ipc \in {"strong", "em", "link", "break", "done"} =>
    CodeInners(inline_text) = CodeInners(CodeSub(inline_arg, 1))

\* ---------------------------------------------------------- parse_sections
\* whether \s*$ (re.MULTILINE) can match from index r on: only blanks up to
\* the end of the line
TailOK(t, r) ==
  \E n \in 0..WsRun(t, r) : r + n = Len(t) + 1 \/ t[r + n] = NL

\* the shortest e >= s with t[s..e] on one line and TailOK after it: (.+?)
\* followed by \s*$
RECURSIVE LazyEnd(_, _)
LazyEnd(t, e) == IF TailOK(t, e + 1) THEN e ELSE LazyEnd(t, e + 1)

\* index of the last character \s*$ consumes after index e (greedy)
GreedyTail(t, e) ==
  e + (CHOOSE n \in 0..WsRun(t, e + 1) :
         /\ e + n = Len(t) \/ t[e + n + 1] = NL
         /\ \A n2 \in 0..WsRun(t, e + 1) :
              (e + n2 = Len(t) \/ t[e + n2 + 1] = NL) => n2 <= n)

\* r'(?m)^\s*##\s+(.+?)\s*$' tried at index p: <<start, first and last index
\* of group 1, end>>, or <<0, 0, 0, 0>>
H2MatchAt(t, p) ==
  LET h == p + WsRun(t, p)
      ks == {k \in 1..WsRun(t, h + 2) :
               h + 2 + k <= Len(t) /\ t[h + 2 + k] # NL}
  IN  IF AtLineStart(t, p) /\ IsPrefixAt(t, h, <<"#", "#">>) /\ ks # {}
      THEN LET s == h + 2 + (CHOOSE k \in ks : \A k2 \in ks : k2 <= k)
               e == LazyEnd(t, s)
           IN  <<p, s, e, GreedyTail(t, e)>>
      ELSE <<0, 0, 0, 0>>

\* re.finditer from index p on
RECURSIVE H2Matches(_, _)
H2Matches(t, p) ==
  IF p > Len(t) THEN <<>>
  ELSE LET m == H2MatchAt(t, p)
       IN  IF m[1] > 0 THEN <<m>> \o H2Matches(t, m[4] + 1)
           ELSE H2Matches(t, p + 1)

\* [block.strip() for block in html_content.split('\n') if block.strip()]
ContentBlocks(h) ==
  LET parts == Split(h, NL)
  IN  SelectSeq([k \in 1..Len(parts) |-> Strip(parts[k])], LAMBDA b : b # <<>>)

\* one iteration of "for i, m in enumerate(matches):"
SectionOf(t, ms, k) ==
  LET m == ms[k]
      end == IF k + 1 <= Len(ms) THEN ms[k + 1][1] - 1 ELSE Len(t)
      b == Strip(SubSeq(t, m[4] + 1, end))
  IN  [heading |-> Strip(SubSeq(t, m[2], m[3])),
       content |-> ContentBlocks(convert_markdown_to_html(b))]

SectionLines ==
  { <<"#", "#", " ", "A">>, <<"#", "#", " ", "B">>, <<"#", "#">>,
    <<"-", " ", "a">>, <<>>, <<"t">>, <<"#", "#", "#", " ", "h">>,
    <<"#", " ", "T">> }

\* "## S", "- a", "- b", "", "text"
ExampleDoc ==
  <<"#", "#", " ", "S", NL, "-", " ", "a", NL, "-", " ", "b", NL, NL,
    "t", "e", "x", "t">>

SectionDocs ==
  {Join(ls, NL) : ls \in SeqsUpTo(SectionLines, MaxDocLines)} \cup {ExampleDoc}

InitSections ==
  /\ md_text \in SectionDocs
  /\ matches = <<>> /\ sec_i = 0 /\ sections = <<>>
  /\ spc = "start"
  /\ BlocksIdle /\ InlineIdle /\ DateIdle /\ MainIdle

FindHeadings ==
  /\ spc = "start"
  /\ matches' = H2Matches(md_text, 1)
  /\ sec_i' = 1
  /\ spc' = "loop"
  /\ UNCHANGED <<md_text, sections, blockVars, inlineVars, dateVars, mainVars>>

AppendSection ==
  /\ spc = "loop" /\ sec_i <= Len(matches)
  /\ sections' = Append(sections, SectionOf(md_text, matches, sec_i))
  /\ sec_i' = sec_i + 1
  /\ UNCHANGED <<md_text, matches, spc, blockVars, inlineVars, dateVars, mainVars>>

ReturnSections ==
  /\ spc = "loop" /\ sec_i > Len(matches)
  /\ spc' = "done"
  /\ UNCHANGED <<md_text, matches, sec_i, sections, blockVars, inlineVars, dateVars, mainVars>>

NextSections ==
  \/ FindHeadings
  \/ AppendSection
  \/ ReturnSections

SpecSections == InitSections /\ [][NextSections]_vars

\* a fragment that opens a block: a list, a blockquote or a paragraph
OpensBlock(l) == l # <<>> /\ l[1] \in {UL_OUTSIDE, UL_INSIDE, QUOTE_DIV, P_OPEN}

\* C1 (as claimed): a section's content holds one fragment per emitted block
\* (a whole list is one fragment, a paragraph is one fragment); the body
\* "- a\n- b\n\ntext" gives exactly two fragments.
C1_OneFragmentPerBlock ==
  spc = "done" =>
    /\ \A k \in 1..Len(sections) :
         Len(sections[k].content) = Len(SelectSeq(sections[k].content, OpensBlock))
    /\ md_text = ExampleDoc => Len(sections[1].content) = 2

\* a line "## text": the marker, blanks, and text on the same line
IsH2Line(l) ==
  LET w == LStrip(l)
  IN  /\ StartsWith(w, <<"#", "#">>)
      /\ Len(w) >= 3 /\ w[3] \in WS
      /\ Strip(SubSeq(w, 3, Len(w))) # <<>>

H2Indices(ls) == {k \in 1..Len(ls) : IsH2Line(ls[k])}

\* the k-th smallest element of a finite set of numbers
RECURSIVE Nth(_, _)
Nth(S, k) ==
  LET m == CHOOSE x \in S : \A y \in S : x <= y
  IN  IF k = 1 THEN m ELSE Nth(S \ {m}, k - 1)

ExpectedSections(t) ==
  LET ls == Split(t, NL)
      H == H2Indices(ls)
      n == Cardinality(H)
  IN  [j \in 1..n |->
         LET from == Nth(H, j)
             to == IF j < n THEN Nth(H, j + 1) - 1 ELSE Len(ls)
             w == LStrip(ls[from])
         IN  [heading |-> Strip(SubSeq(w, 3, Len(w))),
              content |-> ContentBlocks(convert_markdown_to_html(
                            Strip(Join(SubSeq(ls, from + 1, to), NL))))]]

\* C6 (as claimed): one section per "## text" line, in document order, each
\* built from exactly the lines between its heading and the next one (or the
\* end); no such line, no section.
C6_OneSectionPerHeading ==
  spc = "done" => sections = ExpectedSections(md_text)

\* the bare marker "##" on a line of its own
HasBareMarker(t) ==
  \E k \in 1..Len(Split(t, NL)) : Strip(Split(t, NL)[k]) = <<"#", "#">>

\* what does hold: C6 on every document without a bare "##" line
SectionsWithoutBareMarker ==
  (spc = "done" /\ ~HasBareMarker(md_text)) => sections = ExpectedSections(md_text)

\* --------------------------------------------------------- _try_parse_date
Digits == <<"0", "1", "2", "3", "4", "5", "6", "7", "8", "9">>
IsDigit(c) == c \in Range(Digits)
DigitVal(c) == (CHOOSE k \in 1..10 : Digits[k] = c) - 1

\* int(s) of a string of digits
RECURSIVE IntOf(_)
IntOf(ds) ==
  IF ds = <<>> THEN 0
  ELSE 10 * IntOf(SubSeq(ds, 1, Len(ds) - 1)) + DigitVal(ds[Len(ds)])

UpperCase ==
  <<"A", "B", "C", "D", "E", "F", "G", "H", "I", "J", "K", "L", "M",
    "N", "O", "P", "Q", "R", "S", "T", "U", "V", "W", "X", "Y", "Z">>
LowerCase ==
  <<"a", "b", "c", "d", "e", "f", "g", "h", "i", "j", "k", "l", "m",
    "n", "o", "p", "q", "r", "s", "t", "u", "v", "w", "x", "y", "z">>
Lower(c) ==
  IF c \in Range(UpperCase)
  THEN LowerCase[CHOOSE k \in 1..26 : UpperCase[k] = c]
  ELSE c
LowerStr(t) == [k \in 1..Len(t) |-> Lower(t[k])]

\* the month names of the C locale, as time.strptime's %b and %B know them
MonthAbbr ==
  << <<"j", "a", "n">>,
     <<"f", "e", "b">>,
     <<"m", "a", "r">>,
     <<"a", "p", "r">>,
     <<"m", "a", "y">>,
     <<"j", "u", "n">>,
     <<"j", "u", "l">>,
     <<"a", "u", "g">>,
     <<"s", "e", "p">>,
     <<"o", "c", "t">>,
     <<"n", "o", "v">>,
     <<"d", "e", "c">> >>
MonthFull ==
  << <<"j", "a", "n", "u", "a", "r", "y">>,
     <<"f", "e", "b", "r", "u", "a", "r", "y">>,
     <<"m", "a", "r", "c", "h">>,
     <<"a", "p", "r", "i", "l">>,
     <<"m", "a", "y">>,
     <<"j", "u", "n", "e">>,
     <<"j", "u", "l", "y">>,
     <<"a", "u", "g", "u", "s", "t">>,
     <<"s", "e", "p", "t", "e", "m", "b", "e", "r">>,
     <<"o", "c", "t", "o", "b", "e", "r">>,
     <<"n", "o", "v", "e", "m", "b", "e", "r">>,
     <<"d", "e", "c", "e", "m", "b", "e", "r">> >>

IndexOf(seq, x) ==
  IF \E k \in 1..Len(seq) : seq[k] = x
  THEN CHOOSE k \in 1..Len(seq) : seq[k] = x
  ELSE 0

\* number of consecutive digits of t from index i on
RECURSIVE DigitRun(_, _)
DigitRun(t, i) == IF i <= Len(t) /\ IsDigit(t[i]) THEN 1 + DigitRun(t, i + 1) ELSE 0

\* re.findall(r"\d+", raw)
RECURSIVE DigitRuns(_, _)
DigitRuns(t, i) ==
  IF i > Len(t) THEN <<>>
  ELSE LET n == DigitRun(t, i)
       IN  IF n > 0 THEN <<SubSeq(t, i, i + n - 1)>> \o DigitRuns(t, i + n)
           ELSE DigitRuns(t, i + 1)

\* str.split(): the fields between runs of whitespace
RECURSIVE Fields(_)
Fields(t) ==
  LET w == LStrip(t)
  IN  IF w = <<>> THEN <<>>
      ELSE LET n == CHOOSE k \in 1..Len(w) :
                      /\ \A j \in 1..k : w[j] \notin WS
                      /\ k = Len(w) \/ w[k + 1] \in WS
           IN  <<SubSeq(w, 1, n)>> \o Fields(SubSeq(w, n + 1, Len(w)))

IsLeap(y) == (y % 4 = 0 /\ y % 100 # 0) \/ y % 400 = 0

DaysInMonth(y, m) ==
  IF m = 2 THEN (IF IsLeap(y) THEN 29 ELSE 28)
  ELSE IF m \in {4, 6, 9, 11} THEN 30
  ELSE 31

\* what datetime(y, m, d) accepts
ValidDate(y, m, d) ==
  /\ y >= 1 /\ y <= 9999
  /\ m >= 1 /\ m <= 12
  /\ d >= 1 /\ d <= DaysInMonth(y, m)

Failure(why) == [ok |-> FALSE, error |-> why]
DateOf(y, m, d) == [ok |-> TRUE, year |-> y, month |-> m, day |-> d]

\* a constructor that accepts any three numbers
MakeDateUnchecked(y, m, d) == DateOf(y, m, d)

\* datetime(y, mth, d): the date, or ValueError
MakeDate(y, m, d) ==
  IF ValidDate(y, m, d) THEN DateOf(y, m, d) ELSE Failure("out of range")

\* strptime's %d: 3[0-1] | [1-2]\d | 0[1-9] | [1-9]   (its last alternative,
\* a blank and a digit, cannot stand first in a stripped string)
IsDayField(f) ==
  \/ Len(f) = 2 /\ f[1] = "3" /\ f[2] \in {"0", "1"}
  \/ Len(f) = 2 /\ f[1] \in {"1", "2"} /\ IsDigit(f[2])
  \/ Len(f) = 2 /\ f[1] = "0" /\ IsDigit(f[2]) /\ f[2] # "0"
  \/ Len(f) = 1 /\ IsDigit(f[1]) /\ f[1] # "0"

\* strptime's %m: 1[0-2] | 0[1-9] | [1-9]
IsMonthField(f) ==
  \/ Len(f) = 2 /\ f[1] = "1" /\ f[2] \in {"0", "1", "2"}
  \/ Len(f) = 2 /\ f[1] = "0" /\ IsDigit(f[2]) /\ f[2] # "0"
  \/ Len(f) = 1 /\ IsDigit(f[1]) /\ f[1] # "0"

\* strptime's %Y: \d\d\d\d
IsYearField(f) == Len(f) = 4 /\ \A k \in 1..4 : IsDigit(f[k])

\* datetime.strptime(raw, "%d<sep>%m<sep>%Y"): the date, or ValueError
StrptimeNumeric(r, sep) ==
  LET f == Split(r, sep)
  IN  IF Len(f) = 3 /\ IsDayField(f[1]) /\ IsMonthField(f[2]) /\ IsYearField(f[3])
      THEN MakeDate(IntOf(f[3]), IntOf(f[2]), IntOf(f[1]))
      ELSE Failure("no match")

\* datetime.strptime(raw, "%d %b %Y") or "%d %B %Y": names is the month table
StrptimeNamed(r, names) ==
  LET f == Fields(r)
  IN  IF /\ Len(f) = 3 /\ IsDayField(f[1]) /\ IsYearField(f[3])
         /\ IndexOf(names, LowerStr(f[2])) > 0
      THEN MakeDate(IntOf(f[3]), IndexOf(names, LowerStr(f[2])), IntOf(f[1]))
      ELSE Failure("no match")

\* fmts = ["%d/%m/%Y", "%d-%m-%Y", "%d.%m.%Y", "%d %b %Y", "%d %B %Y"]
NumFmts == 5
Strptime(r, k) ==
  CASE k = 1 -> StrptimeNumeric(r, "/")
    [] k = 2 -> StrptimeNumeric(r, "-")
    [] k = 3 -> StrptimeNumeric(r, ".")
    [] k = 4 -> StrptimeNamed(r, MonthAbbr)
    [] k = 5 -> StrptimeNamed(r, MonthFull)

\* a fallback that reads the first number as the month
DigitFallbackMonthFirst(r) ==
  LET digits == DigitRuns(r, 1)
  IN  IF Len(digits) >= 3
      THEN IF ValidDate(IntOf(digits[3]), IntOf(digits[1]), IntOf(digits[2]))
           THEN DateOf(IntOf(digits[3]), IntOf(digits[1]), IntOf(digits[2]))
           ELSE Failure("out of range")
      ELSE Failure("unrecognised")

\* "Last resort: extract digits as DD MM YYYY (UK order)"
DigitFallback(r) ==
  LET digits == DigitRuns(r, 1)
  IN  IF Len(digits) >= 3
      THEN MakeDate(IntOf(digits[3]), IntOf(digits[2]), IntOf(digits[1]))
      ELSE Failure("unrecognised")

RECURSIVE TryFormatsFrom(_, _)
TryFormatsFrom(r, k) ==
  IF k > NumFmts THEN DigitFallback(r)
  ELSE IF Strptime(r, k).ok THEN Strptime(r, k)
  ELSE TryFormatsFrom(r, k + 1)

try_parse_date(r) == TryFormatsFrom(Strip(r), 1)

\* ------------------------------------------------------- parse_last_updated
\* characters a TLA+ source cannot hold, named
EM_DASH == "EM DASH U+2014"
EN_DASH == "EN DASH U+2013"
FW_COLON == "FULLWIDTH COLON U+FF1A"

\* md_text.replace(em dash, "-").replace(en dash, "-").replace(fullwidth colon, ":")
Normalise(t) ==
  [k \in 1..Len(t) |->
     IF t[k] \in {EM_DASH, EN_DASH} THEN "-"
     ELSE IF t[k] = FW_COLON THEN ":"
     ELSE t[k]]

\* the literal words of a label, apart by \s*, matched from index q on without
\* regard to case: the index after the last word, or 0
RECURSIVE WordsEnd(_, _, _)
WordsEnd(t, q, words) ==
  IF words = <<>> THEN q
  ELSE LET w == Head(words)
       IN  IF q + Len(w) - 1 <= Len(t) /\ LowerStr(SubSeq(t, q, q + Len(w) - 1)) = w
           THEN IF Len(words) = 1 THEN q + Len(w)
                ELSE WordsEnd(t, q + Len(w) + WsRun(t, q + Len(w)), Tail(words))
           ELSE 0

\* patterns = [last\s*updated, updated, effective\s*(?:date|as\s*of)], each
\* between (?im)^\s* and \s*[:\-]?\s*(.+?)\s*$ : the alternatives of pattern k
NumPatterns == 3
LabelWords(k) ==
  LET last == <<"l", "a", "s", "t">>
      updated == <<"u", "p", "d", "a", "t", "e", "d">>
      effective == <<"e", "f", "f", "e", "c", "t", "i", "v", "e">>
      date == <<"d", "a", "t", "e">>
      as == <<"a", "s">>
      of == <<"o", "f">>
  IN  CASE k = 1 -> << <<last, updated>> >>
        [] k = 2 -> << <<updated>> >>
        [] k = 3 -> << <<effective, date>>, <<effective, as, of>> >>

\* \s*[:\-]?\s*(.+?)\s*$ from index q on: the first index of group 1, or 0.
\* Each of \s*, [:\-]? and \s* takes as much as it can and gives back, the
\* last one first, until a character other than a newline is left for (.+?)
CaptureStart(t, q) ==
  LET ok(a, b, c) ==
        /\ b = 1 => (q + a <= Len(t) /\ t[q + a] \in {":", "-"})
        /\ c <= WsRun(t, q + a + b)
        /\ q + a + b + c <= Len(t)
        /\ t[q + a + b + c] # NL
      cands == {x \in (0..WsRun(t, q)) \X {0, 1} \X (0..Len(t)) : ok(x[1], x[2], x[3])}
      better(x, y) ==
        \/ x[1] > y[1]
        \/ x[1] = y[1] /\ x[2] > y[2]
        \/ x[1] = y[1] /\ x[2] = y[2] /\ x[3] >= y[3]
  IN  IF cands = {} THEN 0
      ELSE LET best == CHOOSE x \in cands : \A y \in cands : better(x, y)
           IN  q + best[1] + best[2] + best[3]

\* pattern k tried at index p: <<first, last>> index of group 1, or <<0, 0>>
LabelMatchAt(t, p, k) ==
  LET h == p + WsRun(t, p)
      alts == LabelWords(k)
      ends == {WordsEnd(t, h, alts[a]) : a \in 1..Len(alts)} \ {0}
  IN  IF AtLineStart(t, p) /\ ends # {}
      THEN LET s == CaptureStart(t, CHOOSE e \in ends : TRUE)
           IN  IF s > 0 THEN <<s, LazyEnd(t, s)>> ELSE <<0, 0>>
      ELSE <<0, 0>>

\* re.search(pat, normalised): group 1 of the leftmost match, or "no match"
RECURSIVE LabelSearchFrom(_, _, _)
LabelSearchFrom(t, p, k) ==
  IF p > Len(t) THEN [found |-> FALSE]
  ELSE LET m == LabelMatchAt(t, p, k)
       IN  IF m[1] > 0 THEN [found |-> TRUE, group1 |-> SubSeq(t, m[1], m[2])]
           ELSE LabelSearchFrom(t, p + 1, k)

LabelSearch(t, k) == LabelSearchFrom(t, 1, k)

\* (\d{1,2}[./-]\d{1,2}[./-]\d{4}) tried at index i: the length matched, or 0
NumericDateAt(t, i) ==
  LET fits(dl, ml) ==
        /\ i + dl + ml + 5 <= Len(t)
        /\ \A k \in 0..(dl - 1) : IsDigit(t[i + k])
        /\ t[i + dl] \in {".", "/", "-"}
        /\ \A k \in 1..ml : IsDigit(t[i + dl + k])
        /\ t[i + dl + ml + 1] \in {".", "/", "-"}
        /\ \A k \in 2..5 : IsDigit(t[i + dl + ml + k])
      lens == {x \in {1, 2} \X {1, 2} : fits(x[1], x[2])}
  IN  IF lens = {} THEN 0
      ELSE LET x == CHOOSE y \in lens : TRUE IN x[1] + x[2] + 6

RECURSIVE NumericSearchFrom(_, _)
NumericSearchFrom(t, i) ==
  IF i > Len(t) THEN [found |-> FALSE]
  ELSE LET n == NumericDateAt(t, i)
       IN  IF n > 0 THEN [found |-> TRUE, group1 |-> SubSeq(t, i, i + n - 1)]
           ELSE NumericSearchFrom(t, i + 1)

NumericSearch(t) == NumericSearchFrom(t, 1)

RECURSIVE LabelsFrom(_, _)
LabelsFrom(t, k) ==
  IF k > NumPatterns
  THEN IF NumericSearch(t).found THEN try_parse_date(NumericSearch(t).group1)
       ELSE Failure("no date line")
  ELSE IF LabelSearch(t, k).found THEN try_parse_date(LabelSearch(t, k).group1)
  ELSE LabelsFrom(t, k + 1)

parse_last_updated(t) == LabelsFrom(Normalise(t), 1)

\* ------------------------------ parse_last_updated and _try_parse_date, by steps
\* the lines documents are made of:
\*   "Last Updated: 01/02/2025"
\*   "Last updated"
\*   " Updated <en dash> 05.06.2025"
\*   "Updated<fullwidth colon> 32/13/2025"
\*   "Updated: May 2025"
\*   "Effective as of <em dash> 9 Sep 2025"
\*   "on 10/11/2025"
\*   ""
DateLines ==
  { <<"L", "a", "s", "t", " ", "U", "p", "d", "a", "t", "e", "d", ":", " ", "0", "1", "/", "0", "2", "/", "2", "0", "2", "5">>,
    <<"L", "a", "s", "t", " ", "u", "p", "d", "a", "t", "e", "d">>,
    <<" ", "U", "p", "d", "a", "t", "e", "d", " ", EN_DASH, " ", "0", "5", ".", "0", "6", ".", "2", "0", "2", "5">>,
    <<"U", "p", "d", "a", "t", "e", "d", FW_COLON, " ", "3", "2", "/", "1", "3", "/", "2", "0", "2", "5">>,
    <<"U", "p", "d", "a", "t", "e", "d", ":", " ", "M", "a", "y", " ", "2", "0", "2", "5">>,
    <<"E", "f", "f", "e", "c", "t", "i", "v", "e", " ", "a", "s", " ", "o", "f", " ", EM_DASH, " ", "9", " ", "S", "e", "p", " ", "2", "0", "2", "5">>,
    <<"o", "n", " ", "1", "0", "/", "1", "1", "/", "2", "0", "2", "5">>,
    <<>> }

DateDocs == {Join(ls, NL) : ls \in SeqsUpTo(DateLines, MaxDocLines)}

InitDate ==
  /\ date_text \in DateDocs
  /\ normalised = <<>> /\ pat_i = 0 /\ captured = <<>>
  /\ raw = <<>> /\ fmt_i = 0 /\ last_dt = NoDate
  /\ dpc = "start"
  /\ BlocksIdle /\ InlineIdle /\ SectionsIdle /\ MainIdle

restOfDate == <<blockVars, inlineVars, sectionVars, mainVars>>

\* normalised = md_text.replace(...).replace(...).replace(...)
NormaliseText ==
  /\ dpc = "start"
  /\ normalised' = Normalise(date_text)
  /\ pat_i' = 1
  /\ dpc' = "patterns"
  /\ UNCHANGED <<date_text, captured, raw, fmt_i, last_dt, restOfDate>>

\* "for pat in patterns: m = re.search(pat, normalised); if m: return
\* _try_parse_date(m.group(1))"
LabelFound ==
  /\ dpc = "patterns" /\ pat_i <= NumPatterns
  /\ LabelSearch(normalised, pat_i).found
  /\ captured' = LabelSearch(normalised, pat_i).group1
  /\ dpc' = "try"
  /\ UNCHANGED <<date_text, normalised, pat_i, raw, fmt_i, last_dt, restOfDate>>

LabelNotFound ==
  /\ dpc = "patterns" /\ pat_i <= NumPatterns
  /\ ~LabelSearch(normalised, pat_i).found
  /\ pat_i' = pat_i + 1
  /\ UNCHANGED <<date_text, normalised, captured, raw, fmt_i, last_dt, dpc,
                 restOfDate>>

\* "Fallback: first UK-style date anywhere"
NumericFound ==
  /\ dpc = "patterns" /\ pat_i > NumPatterns
  /\ NumericSearch(normalised).found
  /\ captured' = NumericSearch(normalised).group1
  /\ dpc' = "try"
  /\ UNCHANGED <<date_text, normalised, pat_i, raw, fmt_i, last_dt, restOfDate>>

\* raise ValueError("Could not find a UK-style ... line.")
NoDateLine ==
  /\ dpc = "patterns" /\ pat_i > NumPatterns
  /\ ~NumericSearch(normalised).found
  /\ last_dt' = Failure("no date line")
  /\ dpc' = "done"
  /\ UNCHANGED <<date_text, normalised, pat_i, captured, raw, fmt_i, restOfDate>>

\* _try_parse_date: raw = raw.strip()
StripRaw ==
  /\ dpc = "try"
  /\ raw' = Strip(captured)
  /\ fmt_i' = 1
  /\ dpc' = "formats"
  /\ UNCHANGED <<date_text, normalised, pat_i, captured, last_dt, restOfDate>>

\* "for f in fmts: try: return datetime.strptime(raw, f)"
FormatParses ==
  /\ dpc = "formats" /\ fmt_i <= NumFmts
  /\ Strptime(raw, fmt_i).ok
  /\ last_dt' = Strptime(raw, fmt_i)
  /\ dpc' = "done"
  /\ UNCHANGED <<date_text, normalised, pat_i, captured, raw, fmt_i, restOfDate>>

\* "except ValueError: continue"
FormatFails ==
  /\ dpc = "formats" /\ fmt_i <= NumFmts
  /\ ~Strptime(raw, fmt_i).ok
  /\ fmt_i' = fmt_i + 1
  /\ UNCHANGED <<date_text, normalised, pat_i, captured, raw, last_dt, dpc,
                 restOfDate>>

\* "if len(m) >= 3: ... return datetime(y, mth, d)", which raises ValueError
\* on a date that does not exist
DigitsParse ==
  /\ dpc = "formats" /\ fmt_i > NumFmts
  /\ Len(DigitRuns(raw, 1)) >= 3
  /\ last_dt' = DigitFallback(raw)
  /\ dpc' = "done"
  /\ UNCHANGED <<date_text, normalised, pat_i, captured, raw, fmt_i, restOfDate>>

\* raise ValueError(f"Unrecognised UK date format: {raw!r}")
Unrecognised ==
  /\ dpc = "formats" /\ fmt_i > NumFmts
  /\ Len(DigitRuns(raw, 1)) < 3
  /\ last_dt' = DigitFallback(raw)
  /\ dpc' = "done"
  /\ UNCHANGED <<date_text, normalised, pat_i, captured, raw, fmt_i, restOfDate>>

NextDate ==
  \/ NormaliseText
  \/ LabelFound
  \/ LabelNotFound
  \/ NumericFound
  \/ NoDateLine
  \/ StripRaw
  \/ FormatParses
  \/ FormatFails
  \/ DigitsParse
  \/ Unrecognised

SpecDate == InitDate /\ [][NextDate]_vars

\* ------------------------------------------ properties of date extraction
\* the lines of the normalised document
DateDocLines == Split(Normalise(date_text), NL)

\* the first line that, read on its own, is a label line of kind k (label,
\* optional separator, remainder up to the end of that line), or 0
FirstLabelLine(ls, k) ==
  IF \E n \in 1..Len(ls) : LabelSearch(ls[n], k).found
  THEN CHOOSE n \in 1..Len(ls) :
         /\ LabelSearch(ls[n], k).found
         /\ \A j \in 1..(n - 1) : ~LabelSearch(ls[j], k).found
  ELSE 0

\* the source the priority rule selects, line by line: the kind (1 last
\* updated, 2 updated, 3 effective, 4 numeric substring, 0 none) and the text
SelectedByPriority ==
  LET ls == DateDocLines
      kinds == {k \in 1..NumPatterns : FirstLabelLine(ls, k) > 0}
  IN  IF kinds # {}
      THEN LET k == CHOOSE x \in kinds : \A y \in kinds : x <= y
           IN  <<k, LabelSearch(ls[FirstLabelLine(ls, k)], k).group1>>
      ELSE IF NumericSearch(Normalise(date_text)).found
           THEN <<NumPatterns + 1, NumericSearch(Normalise(date_text)).group1>>
           ELSE <<0, <<>> >>

\* C2 (as claimed): the string handed to the date parser is the remainder of
\* the first "last updated" line if the document has one, else of the first
\* "updated" line, else of the first "effective date" / "effective as of"
\* line, else the first numeric d/m/yyyy substring; nothing is selected only
\* when the document has none of these.
C2_StrictPriority ==
  dpc \in {"try", "formats", "done"} =>
    (IF captured = <<>> THEN <<0, <<>> >> ELSE <<pat_i, captured>>)
      = SelectedByPriority

\* a label with nothing after it on its line but an optional separator
IsBareLabelLine(line) ==
  \E k \in 1..NumPatterns : \E a \in 1..Len(LabelWords(k)) :
    LET e == WordsEnd(line, 1 + WsRun(line, 1), LabelWords(k)[a])
    IN  e > 0 /\ Strip(SubSeq(line, e, Len(line))) \in {<<>>, <<":">>, <<"-">>}

\* on documents whose label lines all carry text, the selection is the one
\* the priority rule describes
SelectionWithoutBareLabel ==
  (\A n \in 1..Len(DateDocLines) : ~IsBareLabelLine(DateDocLines[n]))
    => C2_StrictPriority

HasMonthName(t) ==
  \E n \in 1..Len(Fields(t)) :
    \/ IndexOf(MonthAbbr, LowerStr(Fields(t)[n])) > 0
    \/ IndexOf(MonthFull, LowerStr(Fields(t)[n])) > 0

RunValues(t) == {IntOf(DigitRuns(t, 1)[n]) : n \in 1..Len(DigitRuns(t, 1))}

\* no line begins with a label, and no numeric date stands anywhere
NothingToSelect ==
  /\ \A n \in 1..Len(DateDocLines) : \A k \in 1..NumPatterns :
       \A a \in 1..Len(LabelWords(k)) :
         WordsEnd(DateDocLines[n], 1 + WsRun(DateDocLines[n], 1),
                  LabelWords(k)[a]) = 0
  /\ ~NumericSearch(Normalise(date_text)).found

\* C4: date extraction ends with a date that exists in the calendar and whose
\* day and year are numbers written in the selected string, or with a
\* failure; it fails when the selected string's first three numbers are not a
\* date, when the string has fewer than three numbers and names no month or
\* has fewer than two numbers (no grammar can match it), and when the
\* document has no label line and no numeric date.
C4_DateOrFailure ==
  dpc = "done" =>
    /\ last_dt.ok =>
         /\ ValidDate(last_dt.year, last_dt.month, last_dt.day)
         /\ captured # <<>>
         /\ {last_dt.day, last_dt.year} \subseteq RunValues(raw)
    /\ ~last_dt.ok => last_dt \in {Failure("out of range"),
                                   Failure("unrecognised"),
                                   Failure("no date line")}
    /\ ( /\ captured # <<>> /\ ~HasMonthName(raw)
         /\ Len(DigitRuns(raw, 1)) >= 3
         /\ ~ValidDate(IntOf(DigitRuns(raw, 1)[3]), IntOf(DigitRuns(raw, 1)[2]),
                       IntOf(DigitRuns(raw, 1)[1])) ) => ~last_dt.ok
    /\ ( /\ captured # <<>> /\ ~HasMonthName(raw)
         /\ Len(DigitRuns(raw, 1)) < 3 ) => ~last_dt.ok
    /\ (captured # <<>> /\ Len(DigitRuns(raw, 1)) < 2) => ~last_dt.ok
    /\ NothingToSelect => ~last_dt.ok

\* "32/13/2025" was selected and extraction failed
C4_Witness ==
  /\ dpc = "done"
  /\ raw = <<"3", "2", "/", "1", "3", "/", "2", "0", "2", "5">>
  /\ ~last_dt.ok

\* ---------------------------------------------- _try_parse_date on its own
\* "01/02/2025" and "Updated on the 1st of the 2nd month, 2025"
TryExampleNumeric == <<"0", "1", "/", "0", "2", "/", "2", "0", "2", "5">>
TryExampleDigits ==
  <<"U", "p", "d", "a", "t", "e", "d", " ", "o", "n", " ", "t", "h", "e", " ", "1", "s", "t", " ", "o", "f", " ", "t", "h", "e", " ", "2", "n", "d", " ", "m", "o", "n", "t", "h", ",", " ", "2", "0", "2", "5">>

\* a day, a month and a year, each written in several ways, with any two
\* separators between them
TryInputs ==
  LET days == { <<"1">>, <<"0", "1">>, <<"1", "3">>, <<"3", "1">>, <<"3", "2">> }
      months == { <<"2">>, <<"0", "2">>, <<"1", "2">>, <<"1", "3">>,
                  <<"F", "e", "b">>,
                  <<"f", "e", "b", "r", "u", "a", "r", "y">> }
      years == { <<"2", "0", "2", "5">>, <<"2", "0", "2", "4">>, <<"2", "5">> }
      seps == {"/", "-", ".", " "}
  IN
  {d \o <<s1>> \o m \o <<s2>> \o y :
     d \in days, s1 \in seps, m \in months, s2 \in seps, y \in years}
  \cup {TryExampleNumeric, TryExampleDigits, <<" ">> \o TryExampleNumeric \o <<NL>>}

InitTryParse ==
  /\ captured \in TryInputs
  /\ date_text = <<>> /\ normalised = <<>> /\ pat_i = 0
  /\ raw = <<>> /\ fmt_i = 0 /\ last_dt = NoDate
  /\ dpc = "try"
  /\ BlocksIdle /\ InlineIdle /\ SectionsIdle /\ MainIdle

NextTryParse ==
  \/ StripRaw
  \/ FormatParses
  \/ FormatFails
  \/ DigitsParse
  \/ Unrecognised

SpecTryParse == InitTryParse /\ [][NextTryParse]_vars

\* C3: a date _try_parse_date returns is read day first, month second, year
\* last: under a numeric grammar and under the digit-run fallback it is the
\* first three numbers of the string as day, month, year; under a month-name
\* grammar the number before the name is the day and the one after it the
\* year. "01/02/2025" gives 1 February 2025, and so does "Updated on the 1st
\* of the 2nd month, 2025".
C3_DayMonthYear ==
  dpc = "done" =>
    /\ last_dt.ok =>
         LET runs == DigitRuns(raw, 1)
         IN  IF fmt_i \in {4, 5}
             THEN /\ Len(runs) = 2
                  /\ last_dt.day = IntOf(runs[1])
                  /\ last_dt.year = IntOf(runs[2])
                  /\ LowerStr(Fields(raw)[2])
                       \in {MonthAbbr[last_dt.month], MonthFull[last_dt.month]}
             ELSE /\ Len(runs) >= 3
                  /\ last_dt = DateOf(IntOf(runs[3]), IntOf(runs[2]), IntOf(runs[1]))
    /\ raw \in {TryExampleNumeric, TryExampleDigits} => last_dt = DateOf(2025, 2, 1)

\* the digit-run fallback returned a date for the second example
C3_Witness ==
  /\ dpc = "done"
  /\ raw = TryExampleDigits
  /\ fmt_i > NumFmts
  /\ last_dt.ok

\* ------------------------------------------------- md_to_json_structure
\* r'(?m)^\s*#\s+(.+?)\s*$' tried at index p: <<first, last>> index of group
\* 1, or <<0, 0>>
TitleMatchAt(t, p) ==
  LET h == p + WsRun(t, p)
      ks == {k \in 1..WsRun(t, h + 1) :
               h + 1 + k <= Len(t) /\ t[h + 1 + k] # NL}
  IN  IF AtLineStart(t, p) /\ IsPrefixAt(t, h, <<"#">>) /\ ks # {}
      THEN LET c == h + 1 + (CHOOSE k \in ks : \A k2 \in ks : k2 <= k)
           IN  <<c, LazyEnd(t, c)>>
      ELSE <<0, 0>>

\* r'\(([^)]+)\)' searched in the title: group 1, or <<>> where nothing matches
RECURSIVE ParenGroup(_, _)
ParenGroup(t, i) ==
  IF i > Len(t) THEN <<>>
  ELSE LET c == IndexFrom(t, ")", i + 1)
       IN  IF t[i] = "(" /\ c > i + 1 THEN SubSeq(t, i + 1, c - 1)
           ELSE ParenGroup(t, i + 1)

\* extract_title_and_app: title and app_name (<<>> for None), or ValueError
extract_title_and_app(t) ==
  IF \E p \in 1..Len(t) : TitleMatchAt(t, p)[1] > 0
  THEN LET p == CHOOSE q \in 1..Len(t) :
                  /\ TitleMatchAt(t, q)[1] > 0
                  /\ \A q2 \in 1..(q - 1) : TitleMatchAt(t, q2)[1] = 0
           m == TitleMatchAt(t, p)
           title == Strip(SubSeq(t, m[1], m[2]))
       IN  [ok |-> TRUE, title |-> title, app_name |-> Strip(ParenGroup(title, 1))]
  ELSE Failure("no title")

IsAlnum(c) == IsDigit(c) \/ c \in Range(LowerCase) \/ c \in Range(UpperCase)

\* re.sub(r'[^a-zA-Z0-9]+', '-', ...): each run of other characters becomes
\* one "-"
RECURSIVE DashRuns(_)
DashRuns(t) ==
  IF t = <<>> THEN <<>>
  ELSE IF IsAlnum(Head(t)) THEN <<Head(t)>> \o DashRuns(Tail(t))
  ELSE IF Len(t) >= 2 /\ ~IsAlnum(t[2]) THEN DashRuns(Tail(t))
  ELSE <<"-">> \o DashRuns(Tail(t))

RECURSIVE StripDashes(_)
StripDashes(t) ==
  IF t # <<>> /\ Head(t) = "-" THEN StripDashes(Tail(t))
  ELSE IF t # <<>> /\ t[Len(t)] = "-" THEN StripDashes(SubSeq(t, 1, Len(t) - 1))
  ELSE t

\* slugify: after the first substitution no two "-" are adjacent, so the
\* second one changes nothing
slugify(t) ==
  LET sl == StripDashes(DashRuns(LowerStr(Strip(t))))
  IN  IF sl = <<>> THEN <<"a", "p", "p">> ELSE sl

\* Path.stem: the last part without its last suffix
Stem(name) ==
  LET dots == {k \in 2..Len(name) : name[k] = "."}
  IN  IF dots = {} THEN name
      ELSE SubSeq(name, 1, (CHOOSE k \in dots : \A k2 \in dots : k2 <= k) - 1)

APPS == <<"a", "p", "p", "s">>

\* derive_app_id; a path is the sequence of its parts
derive_app_id(app_name, md_path) ==
  LET at == IndexOf(md_path, APPS)
      parent_name == IF Len(md_path) >= 2 THEN md_path[Len(md_path) - 1] ELSE <<>>
  IN  IF app_name # <<>> THEN slugify(app_name)
      ELSE IF at > 0 /\ at + 1 <= Len(md_path) THEN slugify(md_path[at + 1])
      ELSE slugify(IF parent_name # <<>> THEN parent_name
                   ELSE Stem(md_path[Len(md_path)]))

\* str(n) of a natural number
RECURSIVE NumStr(_)
NumStr(n) == IF n < 10 THEN <<Digits[n + 1]>> ELSE NumStr(n \div 10) \o <<Digits[(n % 10) + 1]>>
Pad2(n) == IF n < 10 THEN <<"0">> \o NumStr(n) ELSE NumStr(n)

\* last_dt.strftime("%Y-%m-%d"), as glibc prints it (a year is not padded)
IsoDate(dt) == NumStr(dt.year) \o <<"-">> \o Pad2(dt.month) \o <<"-">> \o Pad2(dt.day)

\* parse_sections as a whole
parse_sections(t) ==
  LET ms == H2Matches(t, 1)
  IN  [k \in 1..Len(ms) |-> SectionOf(t, ms, k)]

\* md_to_json_structure on a file's text: (data, last_dt), or the ValueError
\* of extract_title_and_app or of parse_last_updated
md_to_json_structure(md_path, t, version, locale) ==
  LET ta == extract_title_and_app(t)
      dt == parse_last_updated(t)
  IN  IF ~ta.ok THEN ta
      ELSE IF ~dt.ok THEN dt
      ELSE [ok |-> TRUE,
            data |-> [appId |-> derive_app_id(ta.app_name, md_path),
                      title |-> ta.title,
                      sections |-> parse_sections(t),
                      metadata |-> [version |-> version,
                                    lastUpdated |-> IsoDate(dt),
                                    effectiveDate |-> IsoDate(dt),
                                    locale |-> locale]],
            last_dt |-> dt]

\* ------------------------------------------------------------ main, by steps
\* the draft paths the command line may name, with what the file system holds
\* behind each
DraftFiles ==
  {
    \* a trail-pacing policy, last updated 1 February 2025
    [path |-> <<<<"a", "p", "p", "s">>, <<"t", "r", "a", "i", "l">>, <<"d", "r", "a", "f", "t", ".", "m", "d">>>>,
     exists |-> TRUE,
     text |-> <<"#", " ", "P", "r", "i", "v", "a", "c", "y", " ", "(", "T", "r", "a", "i", "l", " ", "P", "a", "c", "i", "n", "g", ")", NL, "L", "a", "s", "t", " ", "U", "p", "d", "a", "t", "e", "d", ":", " ", "0", "1", "/", "0", "2", "/", "2", "0", "2", "5", NL, "#", "#", " ", "S", NL, "t", "e", "x", "t">>],
    \* a path with no file behind it
    [path |-> <<<<"d", "o", "c", "s">>, <<"n", "o", "n", "e", ".", "m", "d">>>>,
     exists |-> FALSE,
     text |-> <<>>],
    \* a file without a title
    [path |-> <<<<"a">>, <<"d", "r", "a", "f", "t", ".", "m", "d">>>>,
     exists |-> TRUE,
     text |-> <<"L", "a", "s", "t", " ", "U", "p", "d", "a", "t", "e", "d", ":", " ", "0", "1", "/", "0", "2", "/", "2", "0", "2", "5">>],
    \* a file without a date
    [path |-> <<<<"b">>, <<"d", "r", "a", "f", "t", ".", "m", "d">>>>,
     exists |-> TRUE,
     text |-> <<"#", " ", "T", NL, "#", "#", " ", "S">>],
    \* a file whose date does not exist
    [path |-> <<<<"c">>, <<"d", "r", "a", "f", "t", ".", "m", "d">>>>,
     exists |-> TRUE,
     text |-> <<"#", " ", "T", NL, "U", "p", "d", "a", "t", "e", "d", ":", " ", "3", "2", "/", "1", "3", "/", "2", "0", "2", "5">>] }

\* nargs="+": at least one draft
DraftLists == SeqsUpTo(DraftFiles, MaxDrafts) \ {<<>>}

\* --version and --locale, at their defaults
VERSION == <<"1", ".", "0", ".", "0">>
LOCALE == <<"e", "n", "-", "G", "B">>

InitMain ==
  /\ drafts \in DraftLists
  /\ args_stdout \in BOOLEAN
  /\ draft_i = 1
  /\ converted = NoDate
  /\ printed = <<>>
  /\ files = {}
  /\ mpc = "loop"
  /\ BlocksIdle /\ InlineIdle /\ SectionsIdle /\ DateIdle

restOfMain == <<blockVars, inlineVars, sectionVars, dateVars>>

Draft == drafts[draft_i]

\* md_path.parent / f"{last_dt.strftime('%Y-%m-%d')}.json"
OutPath(md_path, dt) ==
  SubSeq(md_path, 1, Len(md_path) - 1)
    \o <<IsoDate(dt) \o <<".", "j", "s", "o", "n">> >>

\* "if not md_path.exists(): print('[skip] ...'); continue"
SkipMissing ==
  /\ mpc = "loop" /\ draft_i <= Len(drafts)
  /\ ~Draft.exists
  /\ printed' = Append(printed, [kind |-> "skip", path |-> Draft.path])
  /\ draft_i' = draft_i + 1
  /\ UNCHANGED <<drafts, args_stdout, converted, files, mpc, restOfMain>>

\* "try: data, last_dt = md_to_json_structure(md_path, ...)"
Convert ==
  /\ mpc = "loop" /\ draft_i <= Len(drafts)
  /\ Draft.exists
  /\ converted' = md_to_json_structure(Draft.path, Draft.text, VERSION, LOCALE)
  /\ mpc' = "tried"
  /\ UNCHANGED <<drafts, args_stdout, draft_i, printed, files, restOfMain>>

\* an error handler that reports the draft and leaves the loop
ConvertFailsAndStops ==
  /\ mpc = "tried" /\ ~converted.ok
  /\ printed' = Append(printed, [kind |-> "error", path |-> Draft.path,
                                 error |-> converted.error])
  /\ mpc' = "done"
  /\ UNCHANGED <<drafts, args_stdout, draft_i, converted, files, restOfMain>>

\* "except Exception as e: print('[error] ...'); continue"
ConvertFails ==
  /\ mpc = "tried" /\ ~converted.ok
  /\ printed' = Append(printed, [kind |-> "error", path |-> Draft.path,
                                 error |-> converted.error])
  /\ draft_i' = draft_i + 1
  /\ mpc' = "loop"
  /\ UNCHANGED <<drafts, args_stdout, converted, files, restOfMain>>

\* "if args.stdout: print(json.dumps(data, ...))"
PrintJson ==
  /\ mpc = "tried" /\ converted.ok
  /\ args_stdout
  /\ printed' = Append(printed, [kind |-> "json", path |-> Draft.path,
                                 data |-> converted.data])
  /\ draft_i' = draft_i + 1
  /\ mpc' = "loop"
  /\ UNCHANGED <<drafts, args_stdout, converted, files, restOfMain>>

\* "else: out_path.write_text(...); print('[ok] Wrote ...')": a file of that
\* name is replaced
WriteFile ==
  /\ mpc = "tried" /\ converted.ok
  /\ ~args_stdout
  /\ LET out_path == OutPath(Draft.path, converted.last_dt)
     IN  /\ files' = {f \in files : f.path # out_path}
                       \cup {[path |-> out_path, data |-> converted.data]}
         /\ printed' = Append(printed, [kind |-> "ok", path |-> Draft.path,
                                        out_path |-> out_path])
  /\ draft_i' = draft_i + 1
  /\ mpc' = "loop"
  /\ UNCHANGED <<drafts, args_stdout, converted, restOfMain>>

\* out_path.write_text stands outside the try block: an OSError it raises
\* (a directory that cannot be written) ends main
WriteRaises ==
  /\ mpc = "tried" /\ converted.ok
  /\ ~args_stdout
  /\ mpc' = "raised"
  /\ UNCHANGED <<drafts, args_stdout, draft_i, converted, printed, files,
                 restOfMain>>

\* the for loop runs out of drafts
MainReturns ==
  /\ mpc = "loop" /\ draft_i > Len(drafts)
  /\ mpc' = "done"
  /\ UNCHANGED <<drafts, args_stdout, draft_i, converted, printed, files,
                 restOfMain>>

NextMain ==
  \/ SkipMissing
  \/ Convert
  \/ ConvertFails
  \/ PrintJson
  \/ WriteFile
  \/ WriteRaises
  \/ MainReturns

SpecMain == InitMain /\ [][NextMain]_vars

\* a conversion failure of draft d: its file is missing, or it has no title,
\* or no date that can be parsed
FailsToConvert(d) ==
  \/ ~d.exists
  \/ ~extract_title_and_app(d.text).ok
  \/ ~parse_last_updated(d.text).ok

\* C7: the drafts are attempted in the order given and each leaves exactly
\* one report: a draft that fails to convert is reported as skipped or in
\* error, prints no JSON and writes no file, and the loop goes on to the next
\* draft; main stops before the last draft only when writing an output file
\* raised, never because a draft failed to convert.
C7_FailuresAreIsolated ==
  /\ mpc \in {"loop", "tried", "done"} => Len(printed) = draft_i - 1
  /\ \A k \in 1..Len(printed) :
       /\ printed[k].path = drafts[k].path
       /\ IF FailsToConvert(drafts[k])
          THEN printed[k].kind = (IF drafts[k].exists THEN "error" ELSE "skip")
          ELSE printed[k].kind = (IF args_stdout THEN "json" ELSE "ok")
  /\ Cardinality(files)
       <= Cardinality({k \in 1..Len(printed) : ~FailsToConvert(drafts[k])})
  /\ \A f \in files : \E k \in 1..Len(printed) :
       /\ ~FailsToConvert(drafts[k])
       /\ printed[k].kind = "ok" /\ printed[k].out_path = f.path
  /\ mpc = "done" => draft_i = Len(drafts) + 1
  /\ mpc = "raised" => ~FailsToConvert(drafts[draft_i]) /\ ~args_stdout

\* a missing file and a failed conversion came first, and the third draft
\* was converted and written all the same
C7_Witness ==
  /\ mpc = "done" /\ Len(drafts) = 3
  /\ ~drafts[1].exists
  /\ drafts[2].exists /\ FailsToConvert(drafts[2])
  /\ ~FailsToConvert(drafts[3])
  /\ printed[3].kind = "ok"
  /\ \E f \in files : f.path = printed[3].out_path

====
